---- MODULE Spec2Model ----
(***************************************************************************)
(* The exchange and ledger engine of BBucks: the CurrencyProvider of       *)
(* src/src/contexts/ThemeContext.tsx (lines 251-403).                      *)
(*                                                                         *)
(* The provider is a React function component.  Its state lives in six     *)
(* useState cells; every operation it exposes is a closure created by a    *)
(* render, and reads the values of the cells as that render bound them.    *)
(* The model keeps both: the variables currencies, wallet, transactions,   *)
(* favorites, loading and error are the cells (a setX(updater) call is     *)
(* applied to the cell when it is made, which is the value React computes  *)
(* for the next render), and view holds the values bound by the latest     *)
(* render, which is what the closures handed to callers read.              *)
(*                                                                         *)
(* Numbers are JavaScript numbers: exact rationals extended with NaN,      *)
(* Infinity and -Infinity.  Binary rounding error and the sign of zero     *)
(* are not represented.                                                    *)
(***************************************************************************)
EXTENDS Integers, Sequences, FiniteSets, TLC

(***************************************************************************)
(* Bounds of the model.                                                    *)
(***************************************************************************)
\* successful trades per behaviour of the ledger specifications
MaxTrades == 2
\* calls (successful trades, refreshes after mount, favorites calls) per
\* behaviour of the whole engine
MaxCalls == 2

\* favorites calls in one behaviour of the favorites alone
MaxFavoriteCalls == 3

(***************************************************************************)
(* JavaScript numbers.                                                     *)
(***************************************************************************)
Abs(i) == IF i < 0 THEN -i ELSE i

RECURSIVE GCD(_, _)
GCD(a, b) == IF b = 0 THEN a ELSE GCD(b, a % b)

\* the rational n/d in lowest terms with a positive denominator (d # 0)
Rat(n, d) ==
  LET g == GCD(Abs(n), Abs(d))
      s == IF d < 0 THEN -1 ELSE 1
  IN  [k |-> "fin", n |-> s * (n \div g), d |-> s * (d \div g)]

Num(i) == [k |-> "fin", n |-> i, d |-> 1]
Zero == Num(0)
NaN == [k |-> "nan", n |-> 0, d |-> 1]
PosInf == [k |-> "inf", n |-> 0, d |-> 1]
NegInf == [k |-> "ninf", n |-> 0, d |-> 1]

IsFinite(x) == x.k = "fin"
IsNaN(x) == x.k = "nan"

Sign(x) ==
  CASE x.k = "inf" -> 1
    [] x.k = "ninf" -> -1
    [] x.k = "nan" -> 0
    [] OTHER -> IF x.n > 0 THEN 1 ELSE IF x.n < 0 THEN -1 ELSE 0

Signed(s) == IF s > 0 THEN PosInf ELSE NegInf

NumNeg(x) ==
  CASE x.k = "inf" -> NegInf
    [] x.k = "ninf" -> PosInf
    [] x.k = "nan" -> NaN
    [] OTHER -> [k |-> "fin", n |-> -x.n, d |-> x.d]

\* a + b
NumAdd(a, b) ==
  IF IsNaN(a) \/ IsNaN(b) THEN NaN
  ELSE IF IsFinite(a) /\ IsFinite(b)
    THEN LET g == GCD(a.d, b.d)
         IN  Rat(a.n * (b.d \div g) + b.n * (a.d \div g), (a.d \div g) * b.d)
  ELSE IF IsFinite(a) THEN b
  ELSE IF IsFinite(b) THEN a
  ELSE IF a.k = b.k THEN a ELSE NaN

\* a - b
NumSub(a, b) == NumAdd(a, NumNeg(b))

\* a * b
NumMul(a, b) ==
  IF IsNaN(a) \/ IsNaN(b) THEN NaN
  ELSE IF IsFinite(a) /\ IsFinite(b)
    THEN LET g1 == GCD(Abs(a.n), b.d)
             g2 == GCD(Abs(b.n), a.d)
         IN  [k |-> "fin",
              n |-> (a.n \div g1) * (b.n \div g2),
              d |-> (a.d \div g2) * (b.d \div g1)]
  ELSE IF Sign(a) = 0 \/ Sign(b) = 0 THEN NaN
  ELSE Signed(Sign(a) * Sign(b))

\* a / b, the divisor zero being +0
NumDiv(a, b) ==
  IF IsNaN(a) \/ IsNaN(b) THEN NaN
  ELSE IF IsFinite(a) /\ IsFinite(b)
    THEN IF b.n = 0
           THEN IF a.n = 0 THEN NaN ELSE Signed(a.n)
           ELSE NumMul(a, Rat(b.d, b.n))
  ELSE IF IsFinite(a) THEN Zero
  ELSE IF IsFinite(b) THEN Signed(Sign(a) * (IF Sign(b) < 0 THEN -1 ELSE 1))
  ELSE NaN

\* a < b
NumLt(a, b) ==
  IF IsNaN(a) \/ IsNaN(b) THEN FALSE
  ELSE IF IsFinite(a) /\ IsFinite(b) THEN Sign(NumSub(a, b)) < 0
  ELSE IF a.k = b.k THEN FALSE
  ELSE a.k = "ninf" \/ b.k = "inf"

\* a >= b
NumGe(a, b) == IF IsNaN(a) \/ IsNaN(b) THEN FALSE ELSE ~NumLt(a, b)

\* the truth value of a number: 0 and NaN are falsy
Truthy(x) == IF IsFinite(x) THEN x.n # 0 ELSE ~IsNaN(x)

(***************************************************************************)
(* IEEE 754 double precision, for the results whose rounding matters.      *)
(* A finite non-zero double is s * m * 2^e with 2^52 <= m < 2^53; m is     *)
(* kept as four limbs of fourteen bits, least significant first.           *)
(* Subnormals, overflow and the sign of zero are not represented.          *)
(***************************************************************************)
LimbBits == 14
LimbBase == 16384
Limbs == 4
MantissaBits == 53

RECURSIVE Pow2(_)
Pow2(n) == IF n = 0 THEN 1 ELSE 2 * Pow2(n - 1)

RECURSIVE IntBitLen(_)
IntBitLen(x) == IF x = 0 THEN 0 ELSE 1 + IntBitLen(x \div 2)

\* the element of a singleton; a value bound by a set is computed once
The(S) == CHOOSE v \in S : TRUE

BigZero == [i \in 1..Limbs |-> 0]

\* 0 <= n < 2^31
BigOfInt(n) ==
  [i \in 1..Limbs |->
     IF i = 1 THEN n % LimbBase
     ELSE IF i = 2 THEN (n \div LimbBase) % LimbBase
     ELSE IF i = 3 THEN n \div (LimbBase * LimbBase)
     ELSE 0]

BigLimb(a, i) == IF i \in DOMAIN a THEN a[i] ELSE 0

\* the low limbs of a, as a mantissa
BigLow(a) == [i \in 1..Limbs |-> a[i]]

\* a + b, of the same length, the sum fitting that length
BigAdd(a, b) ==
  LET c[i \in DOMAIN a] ==
        IF i = 1 THEN 0 ELSE (a[i - 1] + b[i - 1] + c[i - 1]) \div LimbBase
  IN  [i \in DOMAIN a |-> (a[i] + b[i] + c[i]) % LimbBase]

\* a - b, for a >= b
BigSub(a, b) ==
  LET c[i \in DOMAIN a] ==
        IF i = 1 THEN 0
        ELSE IF a[i - 1] - b[i - 1] - c[i - 1] < 0 THEN 1 ELSE 0
  IN  [i \in DOMAIN a |-> (a[i] - b[i] - c[i] + LimbBase) % LimbBase]

BigLt(a, b) ==
  LET d == {i \in DOMAIN a : a[i] # b[i]}
  IN  IF d = {} THEN FALSE
      ELSE LET top == CHOOSE i \in d : \A j \in d : j <= i
           IN  a[top] < b[top]

\* a * b of two mantissas, twice as long
BigMul(a, b) ==
  LET term(i, k) == IF (k + 1 - i) \in 1..Limbs THEN a[i] * b[k + 1 - i] ELSE 0
      col(k) == term(1, k) + term(2, k) + term(3, k) + term(4, k)
      c[k \in 1..(2 * Limbs)] ==
        IF k = 1 THEN 0 ELSE (col(k - 1) + c[k - 1]) \div LimbBase
  IN  [k \in 1..(2 * Limbs) |-> (col(k) + c[k]) % LimbBase]

BigBitLen(a) ==
  LET nz == {i \in DOMAIN a : a[i] # 0}
  IN  IF nz = {} THEN 0
      ELSE LET top == CHOOSE i \in nz : \A j \in nz : j <= i
           IN  LimbBits * (top - 1) + IntBitLen(a[top])

\* bit k of a, the least significant being bit 0
BigBit(a, k) == (a[(k \div LimbBits) + 1] \div Pow2(k % LimbBits)) % 2

BigShiftRight(a, s) ==
  LET w == s \div LimbBits
      b == s % LimbBits
  IN  [i \in DOMAIN a |->
         (BigLimb(a, i + w) \div Pow2(b))
           + (BigLimb(a, i + w + 1) % Pow2(b)) * Pow2(LimbBits - b)]

BigShiftLeft(a, s) ==
  LET w == s \div LimbBits
      b == s % LimbBits
  IN  [i \in DOMAIN a |->
         ((BigLimb(a, i - w) * Pow2(b)) % LimbBase)
           + (BigLimb(a, i - w - 1) \div Pow2(LimbBits - b))]

\* one of the s lowest bits of a is set
BigLowBits(a, s) ==
  \E i \in DOMAIN a :
    /\ (i - 1) * LimbBits < s
    /\ IF i * LimbBits <= s THEN a[i] # 0
       ELSE a[i] % Pow2(s - (i - 1) * LimbBits) # 0

\* one step of binary long division: a zero bit is brought down
BigDivBit(d, q, r) ==
  The({ IF BigLt(r2, d)
          THEN [q |-> q2, r |-> r2]
          ELSE [q |-> [q2 EXCEPT ![1] = q2[1] + 1], r |-> BigSub(r2, d)] :
        r2 \in { BigAdd(r, r) }, q2 \in { BigAdd(q, q) } })

\* n steps of it, n <= LimbBits
RECURSIVE BigDivBits(_, _, _)
BigDivBits(d, n, st) ==
  IF n = 0 THEN st
  ELSE The({ BigDivBits(d, n - 1, next) : next \in { BigDivBit(d, st.q, st.r) } })

\* n steps of it, a limb at a time
RECURSIVE BigDivSteps(_, _, _)
BigDivSteps(d, n, st) ==
  IF n <= LimbBits THEN BigDivBits(d, n, st)
  ELSE The({ BigDivSteps(d, n - LimbBits, next) :
             next \in { BigDivBits(d, LimbBits, st) } })

\* floor(a * 2^n / d) for two mantissas, and whether a remainder is left
BigDiv(a, d, n) ==
  The({ [q |-> st.q, inexact |-> st.r # BigZero] :
        st \in { BigDivSteps(d, n,
                   IF BigLt(a, d) THEN [q |-> BigZero, r |-> a]
                   ELSE [q |-> BigOfInt(1), r |-> BigSub(a, d)]) } })

\* a, longer than 53 bits, rounded to 53 bits, ties to even: the mantissa and
\* the number of bits dropped; sticky tells that bits below a were already lost
BigRound(a0, sticky) ==
  The({ The({ The({ IF BigBitLen(q1) > MantissaBits
                      THEN [m |-> BigShiftRight(q1, 1), s |-> s + 1]
                      ELSE [m |-> q1, s |-> s] :
                    q1 \in { IF /\ BigBit(a, s - 1) = 1
                                /\ (sticky \/ BigLowBits(a, s - 1) \/ q[1] % 2 = 1)
                               THEN BigAdd(q, BigOfInt(1)) ELSE q } }) :
              q \in { BigLow(BigShiftRight(a, s)) } }) :
        a \in {a0}, s \in { BigBitLen(a0) - MantissaBits } })

DblZero == [k |-> "fin", s |-> 1, m |-> BigZero, e |-> 0]
DblNaN == [k |-> "nan", s |-> 1, m |-> BigZero, e |-> 0]
DblInf(sign) == [k |-> "inf", s |-> sign, m |-> BigZero, e |-> 0]

DblIsZero(x) == x.k = "fin" /\ x.m = BigZero

\* the double of an integer, |n| < 2^31
DblOfInt(n) ==
  IF n = 0 THEN DblZero
  ELSE LET a == IF n < 0 THEN -n ELSE n
           len == IntBitLen(a)
       IN  [k |-> "fin", s |-> IF n < 0 THEN -1 ELSE 1,
            m |-> BigShiftLeft(BigOfInt(a), MantissaBits - len),
            e |-> len - MantissaBits]

\* x * y for finite non-zero doubles
DblMulFinite(x, y) ==
  The({ [k |-> "fin", s |-> x.s * y.s, m |-> r.m, e |-> x.e + y.e + r.s] :
        r \in { BigRound(BigMul(x.m, y.m), FALSE) } })

\* x * y, rounded to nearest
DblMul(x0, y0) ==
  The({ IF x.k = "nan" \/ y.k = "nan" THEN DblNaN
        ELSE IF x.k = "inf" \/ y.k = "inf"
          THEN IF DblIsZero(x) \/ DblIsZero(y) THEN DblNaN ELSE DblInf(x.s * y.s)
        ELSE IF DblIsZero(x) \/ DblIsZero(y) THEN DblZero
        ELSE DblMulFinite(x, y) :
        x \in {x0}, y \in {y0} })

\* x / y for finite non-zero doubles
DblDivFinite(x, y) ==
  The({ The({ [k |-> "fin", s |-> x.s * y.s, m |-> r.m,
               e |-> x.e - y.e - (MantissaBits + 2) + r.s] :
              r \in { BigRound(d.q, d.inexact) } }) :
        d \in { BigDiv(x.m, y.m, MantissaBits + 2) } })

\* x / y, rounded to nearest
DblDiv(x0, y0) ==
  The({ IF x.k = "nan" \/ y.k = "nan" THEN DblNaN
        ELSE IF x.k = "inf" THEN (IF y.k = "inf" THEN DblNaN ELSE DblInf(x.s * y.s))
        ELSE IF y.k = "inf" THEN DblZero
        ELSE IF DblIsZero(y) THEN (IF DblIsZero(x) THEN DblNaN ELSE DblInf(x.s))
        ELSE IF DblIsZero(x) THEN DblZero
        ELSE DblDivFinite(x, y) :
        x \in {x0}, y \in {y0} })

(***************************************************************************)
(* The rate table.                                                         *)
(***************************************************************************)
BaseCode == "INR"

\* a rate or an amount written with six decimals
Micro(i) == Rat(i, 1000000)

\* the first entries of the table; change24h is kept in hundredths of a
\* percentage point, the unit toFixed(2) rounds it to
sampleCurrencies ==
  << [code |-> "INR", name |-> "Indian Rupee", rate |-> Num(1),
      change24h |-> 0, color |-> "#FF9933"],
     [code |-> "USD", name |-> "US Dollar", rate |-> Micro(12000),
      change24h |-> 45, color |-> "#0052B4"],
     [code |-> "EUR", name |-> "Euro", rate |-> Micro(11000),
      change24h |-> -20, color |-> "#003399"],
     [code |-> "GBP", name |-> "British Pound", rate |-> Micro(9400),
      change24h |-> 10, color |-> "#00247D"] >>

\* currencies.find(c => c.code === code)?.rate ?? 0
RateOf(table, code) ==
  IF \E i \in 1..Len(table) : table[i].code = code
    THEN LET i == CHOOSE j \in 1..Len(table) :
                    /\ table[j].code = code
                    /\ \A m \in 1..(j - 1) : table[m].code # code
         IN  table[i].rate
    ELSE Zero

convertCurrency(table, amount, fromCurrency, toCurrency) ==
  LET fromRate == RateOf(table, fromCurrency)
      toRate == RateOf(table, toCurrency)
  IN  IF fromCurrency = "INR" THEN NumMul(amount, toRate)
      ELSE IF toCurrency = "INR" THEN NumDiv(amount, fromRate)
      ELSE NumMul(NumDiv(amount, fromRate), toRate)

\* the double a rate or an amount is: a literal, or Number(x.toFixed(6)), is
\* the double nearest to the decimal written
DblOfNum(x) ==
  IF x.k = "nan" THEN DblNaN
  ELSE IF x.k = "inf" THEN DblInf(1)
  ELSE IF x.k = "ninf" THEN DblInf(-1)
  ELSE IF x.d = 1 THEN DblOfInt(x.n)
  ELSE DblDiv(DblOfInt(x.n), DblOfInt(x.d))

\* currencies.find(c => c.code === code)?.rate ?? 0, as the double it is
DblRateOf(table, code) == DblOfNum(RateOf(table, code))

\* a conversion with the two directions to and from the base exchanged
convertCurrencyInverted(table, amount, fromCurrency, toCurrency) ==
  The({ IF fromCurrency = "INR" THEN DblDiv(amount, toRate)
        ELSE IF toCurrency = "INR" THEN DblMul(amount, fromRate)
        ELSE DblMul(DblDiv(amount, fromRate), toRate) :
        fromRate \in { DblRateOf(table, fromCurrency) },
        toRate \in { DblRateOf(table, toCurrency) } })

\* a conversion that ignores the rate of the source
convertCurrencyTargetOnly(table, amount, fromCurrency, toCurrency) ==
  DblMul(amount, DblRateOf(table, toCurrency))

\* convertCurrency in the arithmetic it runs in: amount is a double, and
\* every product and quotient is rounded to the nearest double
convertCurrencyDouble(table, amount, fromCurrency, toCurrency) ==
  The({ IF fromCurrency = "INR" THEN DblMul(amount, toRate)
        ELSE IF toCurrency = "INR" THEN DblDiv(amount, fromRate)
        ELSE DblMul(DblDiv(amount, fromRate), toRate) :
        fromRate \in { DblRateOf(table, fromCurrency) },
        toRate \in { DblRateOf(table, toCurrency) } })

(***************************************************************************)
(* Rate refresh: the body of the setTimeout callback.                      *)
(***************************************************************************)
MicroOf(rate) == rate.n * (1000000 \div rate.d)

\* Number((rate * (1 + randomChange)).toFixed(6)), randomChange in millionths
NewRate(rate, randomChange) ==
  LET r == MicroOf(rate)
  IN  Micro(r + ((2 * r * randomChange + 1000000) \div 2000000))

\* Number((change24h + step).toFixed(2)) in hundredths, the step rounded
New24hChange(change24h, step) == change24h + step

\* the map callback without the exemption of the base currency, whose rate 1
\* becomes 1 + randomChange
PerturbAll(currency, draw) ==
  [currency EXCEPT !.rate = IF currency.code = "INR"
                              THEN Micro(1000000 + draw.rate)
                              ELSE NewRate(currency.rate, draw.rate),
                   !.change24h = New24hChange(currency.change24h, draw.change)]

Perturb(currency, draw) ==
  IF currency.code = "INR" THEN currency
  ELSE [currency EXCEPT !.rate = NewRate(currency.rate, draw.rate),
                        !.change24h = New24hChange(currency.change24h, draw.change)]

\* a map that leaves the base currency out of the new table
updatedCurrenciesWithoutBase(captured, draws) ==
  LET kept == SelectSeq(captured, LAMBDA currency : currency.code # "INR")
  IN  [i \in 1..Len(kept) |-> Perturb(kept[i], draws[kept[i].code])]

\* currencies.map(...) over the table the callback captured
updatedCurrencies(captured, draws) ==
  [i \in 1..Len(captured) |-> Perturb(captured[i], draws[captured[i].code])]

(***************************************************************************)
(* Inputs of the operations.                                               *)
(***************************************************************************)
TradeTypes == {"buy", "sell", "exchange"}

\* three registered codes and one that is not in the table
TradeCodes == {"INR", "USD", "EUR", "XXX"}

\* the base, a registered code and the unregistered one
FewCodes == {"INR", "USD", "XXX"}

\* the seed balance of the wallet
SeedBalance == 100000

\* amounts a caller can pass: not a number, negative, zero, positive
Amounts == {NaN, Num(-100), Zero, Num(500)}

\* finite positive amounts: a small one and the whole seed balance
ValidAmounts == {Num(500), Num(SeedBalance)}

\* the amount traded while the rates move
EngineAmounts == {Num(500)}

\* values of Math.random().toString(36).substring(2, 15)
IdChoices == {"id1"}

\* a registered code outside the initial favorites, one inside, one unregistered
FavoriteCodes == {"INR", "USD", "XXX"}

\* codes a screen converts between: the base, two registered codes and one
\* that is not in the table
ConvertCodes == {"INR", "USD", "EUR", "XXX"}

\* amounts a screen converts: parseFloat of the text typed
ConvertAmounts == {DblOfInt(0), DblOfInt(7), DblOfInt(500)}

\* two values Math.random().toString(36).substring(2, 15) can take
IdDraws == {"id1", "id2"}

\* outcomes of the Math.random() calls of one refresh, per currency:
\* randomChange in millionths, within [-0.005, 0.005), and the rounded step of
\* change24h in hundredths, within [-0.1, 0.1]
TableCodes == {"INR", "USD", "EUR", "GBP"}
RandomDraws ==
  { [c \in TableCodes |-> [rate |-> -5000, change |-> -10]],
    [c \in TableCodes |-> [rate |-> 4999, change |-> 10]],
    [c \in TableCodes |->
       IF c = "USD" THEN [rate |-> 2500, change |-> -3]
       ELSE IF c = "EUR" THEN [rate |-> -1200, change |-> 7]
       ELSE [rate |-> 0, change |-> 0]] }

(***************************************************************************)
(* State.                                                                  *)
(***************************************************************************)
VARIABLES
  currencies,    \* useState cell: the rate table
  wallet,        \* useState cell: code -> balance, on the codes that have a key
  transactions,  \* useState cell: the log, newest first
  favorites,     \* useState cell: list of codes
  loading,       \* useState cell
  error,         \* useState cell: a message or "null"
  view,          \* the cells' values as bound by the latest render
  timeouts,      \* setTimeout callbacks of refreshRates not yet run, oldest first
  result,        \* what the latest executeTrade call returned
  successes,     \* number of executeTrade calls that returned true
  calls,         \* number of refreshRates (after mount), favorites and convertCurrency calls
  mounted,       \* the provider is mounted: its effect has not been cleaned up
  converted,     \* the convertCurrency calls a screen has made, with their results
  lastFavorite   \* the latest addToFavorites or removeFromFavorites call

vars == << currencies, wallet, transactions, favorites, loading, error, view,
           timeouts, result, successes, calls, mounted, converted, lastFavorite >>

\* the values a render binds for the closures it creates
Bound == [currencies |-> currencies, wallet |-> wallet, favorites |-> favorites]

\* the first render, whose closures the mount effect keeps
FirstRender ==
  [currencies |-> sampleCurrencies,
   wallet |-> [c \in {"INR"} |-> Num(SeedBalance)],
   favorites |-> << "USD", "EUR", "GBP" >>]

\* wallet[code] is undefined, 0 or NaN
Falsy(w, code) == IF code \in DOMAIN w THEN ~Truthy(w[code]) ELSE TRUE

\* prev[code] || 0
OrZero(w, code) == IF Falsy(w, code) THEN Zero ELSE w[code]

FeeRate == Rat(2, 1000)

\* the validation without the comparison of the amount
InsufficientKeyOnly(w, fromCurrency, fromAmount) == Falsy(w, fromCurrency)

\* the validation at the head of executeTrade
Insufficient(w, fromCurrency, fromAmount) ==
  IF Falsy(w, fromCurrency) THEN TRUE ELSE NumLt(w[fromCurrency], fromAmount)

\* fromAmount * 0.002
TradeFee(fromAmount) == NumMul(fromAmount, FeeRate)

\* a credit that is charged the fee whatever the type
CreditLessFee(prevTo, type, toAmount, fee) ==
  NumSub(NumAdd(prevTo, toAmount), fee)

\* (prev[toCurrency] || 0) + toAmount - (type === 'exchange' ? fee : 0)
Credit(prevTo, type, toAmount, fee) ==
  NumSub(NumAdd(prevTo, toAmount), IF type = "exchange" THEN fee ELSE Zero)

\* the updater passed to setWallet; of two equal computed keys the later wins
WalletUpdate(prev, type, fromCurrency, toCurrency, fromAmount, toAmount, fee) ==
  [c \in DOMAIN prev \cup {fromCurrency, toCurrency} |->
     IF c = toCurrency
       THEN Credit(OrZero(prev, toCurrency), type, toAmount, fee)
     ELSE IF c = fromCurrency
       THEN NumSub(OrZero(prev, fromCurrency), fromAmount)
     ELSE prev[c]]

\* a Transaction whose fee is recorded for an exchange only
NewTransactionFeeOnExchange(table, id, type, fromCurrency, toCurrency, fromAmount) ==
  [id |-> id, type |-> type,
   fromCurrency |-> fromCurrency, toCurrency |-> toCurrency,
   fromAmount |-> fromAmount,
   toAmount |-> convertCurrency(table, fromAmount, fromCurrency, toCurrency),
   rate |-> convertCurrency(table, Num(1), fromCurrency, toCurrency),
   fee |-> IF type = "exchange" THEN TradeFee(fromAmount) ELSE Zero]

NewTransaction(table, id, type, fromCurrency, toCurrency, fromAmount) ==
  [id |-> id, type |-> type,
   fromCurrency |-> fromCurrency, toCurrency |-> toCurrency,
   fromAmount |-> fromAmount,
   toAmount |-> convertCurrency(table, fromAmount, fromCurrency, toCurrency),
   rate |-> convertCurrency(table, Num(1), fromCurrency, toCurrency),
   fee |-> TradeFee(fromAmount)]

\* a setTransactions updater that keeps the new entry only
LogLatestOnly(prev, newTransaction) == << newTransaction >>

\* a setTransactions updater that puts the new entry last
LogOldestFirst(prev, newTransaction) == Append(prev, newTransaction)

\* the updater passed to setTransactions
LogUpdate(prev, newTransaction) == << newTransaction >> \o prev

\* the provider after its first render and its mount effect, which has called
\* refreshRates once
Init ==
  /\ currencies = sampleCurrencies
  /\ wallet = FirstRender.wallet
  /\ transactions = << >>
  /\ favorites = FirstRender.favorites
  /\ loading = TRUE
  /\ error = "null"
  /\ view = FirstRender
  /\ timeouts = << [origin |-> "mount", currencies |-> FirstRender.currencies] >>
  /\ result = "none"
  /\ successes = 0
  /\ calls = 0
  /\ mounted = TRUE
  /\ converted = << >>
  /\ lastFavorite = [op |-> "none", code |-> "none"]

(***************************************************************************)
(* Operations.                                                             *)
(***************************************************************************)
\* React renders the provider: new closures over the cells' current values
Render ==
  /\ mounted
  /\ view # Bound
  /\ view' = Bound
  /\ UNCHANGED << currencies, wallet, transactions, favorites, loading, error,
                  timeouts, result, successes, calls, mounted, converted,
                  lastFavorite >>

\* a catch block that also clears the loading flag, as the one of refreshRates
TradeRejectedClearsLoading(fromCurrency, fromAmount) ==
  /\ Insufficient(view.wallet, fromCurrency, fromAmount)
  /\ result' = "false"
  /\ error' = "Insufficient balance"
  /\ loading' = FALSE
  /\ UNCHANGED << currencies, wallet, transactions, favorites, view,
                  timeouts, successes, calls, mounted, converted,
                  lastFavorite >>

\* a catch block that returns false without setting the error
TradeRejectedSilently(fromCurrency, fromAmount) ==
  /\ Insufficient(view.wallet, fromCurrency, fromAmount)
  /\ result' = "false"
  /\ UNCHANGED << currencies, wallet, transactions, favorites, loading, error,
                  view, timeouts, successes, calls, mounted, converted,
                  lastFavorite >>

TradeRejected(fromCurrency, fromAmount) ==
  /\ Insufficient(view.wallet, fromCurrency, fromAmount)
  /\ result' = "false"
  /\ error' = "Insufficient balance"
  /\ UNCHANGED << currencies, wallet, transactions, favorites, loading, view,
                  timeouts, successes, calls, mounted, converted,
                  lastFavorite >>

TradeApplied(id, type, fromCurrency, toCurrency, fromAmount) ==
  LET tx == NewTransaction(view.currencies, id, type, fromCurrency,
                           toCurrency, fromAmount)
  IN  /\ ~Insufficient(view.wallet, fromCurrency, fromAmount)
      /\ result' = "true"
      /\ successes' = successes + 1
      /\ transactions' = LogUpdate(transactions, tx)
      /\ wallet' = WalletUpdate(wallet, type, fromCurrency, toCurrency,
                                fromAmount, tx.toAmount, tx.fee)
      /\ UNCHANGED << currencies, favorites, loading, error, view, timeouts,
                      calls, mounted, converted, lastFavorite >>

executeTrade(id, type, fromCurrency, toCurrency, fromAmount) ==
  IF Insufficient(view.wallet, fromCurrency, fromAmount)
    THEN TradeRejected(fromCurrency, fromAmount)
    ELSE TradeApplied(id, type, fromCurrency, toCurrency, fromAmount)

\* a call with inputs drawn from the given sets, admitted while budget holds;
\* a rejected call ends the same way whatever its id, type and target are
Trade(budget, ids, types, codes, amounts) ==
  \E fromCurrency \in codes, fromAmount \in amounts :
    IF Insufficient(view.wallet, fromCurrency, fromAmount)
      THEN TradeRejected(fromCurrency, fromAmount)
      ELSE /\ budget
           /\ \E id \in ids, type \in types, toCurrency \in codes :
                TradeApplied(id, type, fromCurrency, toCurrency, fromAmount)

\* refreshRates as the closure of a render that bound the table `captured`
refreshRates(captured, origin) ==
  /\ loading' = TRUE
  /\ error' = "null"
  /\ timeouts' = Append(timeouts, [origin |-> origin, currencies |-> captured])
  /\ calls' = calls + 1
  /\ UNCHANGED << currencies, wallet, transactions, favorites, view, result,
                  successes, mounted, converted, lastFavorite >>

\* a callback that swaps the table in and leaves loading as it is
TimeoutFiresLoadingKept ==
  /\ timeouts # << >>
  /\ timeouts' = Tail(timeouts)
  /\ IF mounted
       THEN \E draws \in RandomDraws :
              currencies' = updatedCurrencies(Head(timeouts).currencies, draws)
       ELSE UNCHANGED currencies
  /\ UNCHANGED << wallet, transactions, favorites, loading, error, view, result,
                  successes, calls, mounted, converted, lastFavorite >>

\* the setTimeout callback of the oldest refresh runs; the timeout is not
\* cleared on unmount, and a state update of an unmounted component is dropped
TimeoutFires ==
  /\ timeouts # << >>
  /\ timeouts' = Tail(timeouts)
  /\ IF mounted
       THEN /\ \E draws \in RandomDraws :
                 currencies' = updatedCurrencies(Head(timeouts).currencies, draws)
            /\ loading' = FALSE
       ELSE UNCHANGED << currencies, loading >>
  /\ UNCHANGED << wallet, transactions, favorites, error, view, result,
                  successes, calls, mounted, converted, lastFavorite >>

\* the provider is unmounted: the cleanup of the mount effect clears the interval
Unmount ==
  /\ mounted
  /\ mounted' = FALSE
  /\ UNCHANGED << currencies, wallet, transactions, favorites, loading, error,
                  view, timeouts, result, successes, calls, converted,
                  lastFavorite >>

InList(list, code) == \E i \in 1..Len(list) : list[i] = code

\* an addToFavorites that also clears the error slot
addToFavoritesClearsError(currencyCode) ==
  /\ favorites' = IF InList(view.favorites, currencyCode) THEN favorites
                  ELSE Append(favorites, currencyCode)
  /\ calls' = calls + 1
  /\ lastFavorite' = [op |-> "add", code |-> currencyCode]
  /\ error' = "null"
  /\ loading' = FALSE
  /\ UNCHANGED << currencies, wallet, transactions, view,
                  timeouts, result, successes, mounted, converted >>

\* the test reads the favorites of the render, the update appends to the
\* favorites in place
addToFavorites(currencyCode) ==
  /\ favorites' = IF InList(view.favorites, currencyCode) THEN favorites
                  ELSE Append(favorites, currencyCode)
  /\ calls' = calls + 1
  /\ lastFavorite' = [op |-> "add", code |-> currencyCode]
  /\ UNCHANGED << currencies, wallet, transactions, loading, error, view,
                  timeouts, result, successes, mounted, converted >>

removeFromFavorites(currencyCode) ==
  /\ favorites' = SelectSeq(favorites, LAMBDA code : code # currencyCode)
  /\ calls' = calls + 1
  /\ lastFavorite' = [op |-> "remove", code |-> currencyCode]
  /\ UNCHANGED << currencies, wallet, transactions, loading, error, view,
                  timeouts, result, successes, mounted, converted >>

\* the favorites in the order they were added, each looked up in the table
getFavoritesInAddedOrder ==
  LET known == SelectSeq(view.favorites,
                         LAMBDA code : \E i \in 1..Len(view.currencies) :
                                         view.currencies[i].code = code)
  IN  [i \in 1..Len(known) |->
         view.currencies[CHOOSE j \in 1..Len(view.currencies) :
                           view.currencies[j].code = known[i]]]

\* currencies.filter(currency => favorites.includes(currency.code))
getFavorites ==
  SelectSeq(view.currencies, LAMBDA currency : InList(view.favorites, currency.code))

(***************************************************************************)
(* The whole engine while the provider is mounted.  (After the unmount no  *)
(* state update takes effect; teardown is in SpecLifecycle below.)         *)
(***************************************************************************)
Budget == successes + calls < MaxCalls

ExecuteTrade == Trade(Budget, IdChoices, TradeTypes, TradeCodes, EngineAmounts)

\* a screen calls the refreshRates of the latest render
ManualRefresh == Budget /\ mounted /\ refreshRates(view.currencies, "manual")

\* a tick of an interval that the cleanup did not clear
IntervalTickNotCleared ==
  /\ Budget
  /\ \A i \in 1..Len(timeouts) : timeouts[i].origin = "manual"
  /\ refreshRates(FirstRender.currencies, "interval")

\* the interval of the mount effect calls the refreshRates of the first render
\* until the cleanup clears it; a tick comes 30000 ms after the previous
\* timer-driven call, whose callback ran after 1000 ms
IntervalTick ==
  /\ Budget
  /\ mounted
  /\ \A i \in 1..Len(timeouts) : timeouts[i].origin = "manual"
  /\ refreshRates(FirstRender.currencies, "interval")

AddToFavorites == Budget /\ \E code \in FavoriteCodes : addToFavorites(code)

RemoveFromFavorites == Budget /\ \E code \in FavoriteCodes : removeFromFavorites(code)

Next ==
  \/ Render
  \/ ExecuteTrade
  \/ ManualRefresh
  \/ IntervalTick
  \/ TimeoutFires
  \/ AddToFavorites
  \/ RemoveFromFavorites

Spec == Init /\ [][Next]_vars

(***************************************************************************)
(* The ledger alone, rates held fixed: the mount refresh never completes.  *)
(***************************************************************************)
LedgerTrade == Trade(successes < MaxTrades, IdChoices, TradeTypes, TradeCodes, ValidAmounts)

NextLedger ==
  \/ Render
  \/ LedgerTrade

SpecLedger == Init /\ [][NextLedger]_vars

\* the same with every amount a caller can pass
AnyTrade == Trade(successes < MaxTrades, IdChoices, TradeTypes, FewCodes, Amounts)

NextAmounts ==
  \/ Render
  \/ AnyTrade

SpecAmounts == Init /\ [][NextAmounts]_vars

(***************************************************************************)
(* The life of the provider: refreshes, by the timers and by the screens,  *)
(* and teardown.  The callback of a setTimeout always runs.                *)
(***************************************************************************)
NextLifecycle ==
  \/ Render
  \/ ManualRefresh
  \/ IntervalTick
  \/ TimeoutFires
  \/ Unmount

SpecLifecycle == Init /\ [][NextLifecycle]_vars

FairLifecycle == SpecLifecycle /\ WF_vars(TimeoutFires)

(***************************************************************************)
(* The ledger with the ids drawn at random.                                *)
(***************************************************************************)
DrawnTrade == Trade(successes < MaxTrades, IdDraws, TradeTypes, TradeCodes, EngineAmounts)

NextDrawn ==
  \/ Render
  \/ DrawnTrade

SpecDrawn == Init /\ [][NextDrawn]_vars

(***************************************************************************)
(* The Transaction screen: the fee it shows for the amount typed.          *)
(***************************************************************************)
\* const feeRate = type === 'exchange' ? 0.002 : 0.005
ScreenFeeRate(type) == IF type = "exchange" THEN Rat(2, 1000) ELSE Rat(5, 1000)

\* setFee(fromAmount * feeRate)
ScreenFee(type, fromAmount) == NumMul(fromAmount, ScreenFeeRate(type))

(***************************************************************************)
(* The favorites alone: calls of the screens and renders between them.     *)
(***************************************************************************)
FavoriteBudget == calls < MaxFavoriteCalls

FavoriteAdded == FavoriteBudget /\ \E code \in FavoriteCodes : addToFavorites(code)

FavoriteRemoved == FavoriteBudget /\ \E code \in FavoriteCodes : removeFromFavorites(code)

NextFavorites ==
  \/ Render
  \/ FavoriteAdded
  \/ FavoriteRemoved

SpecFavorites == Init /\ [][NextFavorites]_vars

(***************************************************************************)
(* Conversions by the screens while the rates are refreshed: a screen      *)
(* calls the convertCurrency of the latest render, and may convert the     *)
(* result back.                                                            *)
(***************************************************************************)
\* one call of convertCurrency: its arguments, the table its closure read and
\* what it returned
Conversion(table, amount, fromCurrency, toCurrency) ==
  [amount |-> amount, from |-> fromCurrency, to |-> toCurrency, table |-> table,
   value |-> convertCurrencyDouble(table, amount, fromCurrency, toCurrency)]

Convert ==
  /\ Budget
  /\ mounted
  /\ converted = << >>
  /\ \E amount \in ConvertAmounts, fromCurrency \in ConvertCodes,
        toCurrency \in ConvertCodes :
       converted' = << Conversion(view.currencies, amount, fromCurrency, toCurrency) >>
  /\ calls' = calls + 1
  /\ UNCHANGED << currencies, wallet, transactions, favorites, loading, error,
                  view, timeouts, result, successes, mounted, lastFavorite >>

\* the result of the first call converted the other way
ConvertBack ==
  /\ Budget
  /\ mounted
  /\ Len(converted) = 1
  /\ converted' = Append(converted,
                         Conversion(view.currencies, converted[1].value,
                                    converted[1].to, converted[1].from))
  /\ calls' = calls + 1
  /\ UNCHANGED << currencies, wallet, transactions, favorites, loading, error,
                  view, timeouts, result, successes, mounted, lastFavorite >>

NextConvert ==
  \/ Render
  \/ ManualRefresh
  \/ TimeoutFires
  \/ Convert
  \/ ConvertBack

SpecConvert == Init /\ [][NextConvert]_vars

(***************************************************************************)
(* Notions the claims use.                                                 *)
(***************************************************************************)
\* the balance of a code: a missing key counts as 0
BalanceOf(w, code) == IF code \in DOMAIN w THEN w[code] ELSE Zero

FinitePositive(x) == IF IsFinite(x) THEN x.n > 0 ELSE FALSE

\* the call with these inputs passes the validation of the closure in use
Admitted(fromCurrency, fromAmount) ==
  ~Insufficient(view.wallet, fromCurrency, fromAmount)

(***************************************************************************)
(* C1.  Every balance in the wallet is >= 0 in every reachable state,      *)
(* after any sequence of executeTrade, refreshRates and favorites calls.   *)
(* The code admits an exchange into an unregistered code, which converts   *)
(* to 0 and is charged the fee: the statement is violated.                 *)
(***************************************************************************)
C1_BalancesNonNegative ==
  \A code \in DOMAIN wallet : NumGe(wallet[code], Zero)

(***************************************************************************)
(* C2.  executeTrade called with a fromAmount that is not finite-positive  *)
(* (zero, negative, not a number) returns false and leaves the wallet and  *)
(* the transaction log unchanged, whatever the balance of fromCode.  The   *)
(* code compares the amount with the balance only: the statement is        *)
(* violated.                                                               *)
(***************************************************************************)
C2_InvalidAmountRejected ==
  [][\/ /\ result' = "false"
        /\ wallet' = wallet
        /\ transactions' = transactions
     \/ \A fromCurrency \in FewCodes, fromAmount \in Amounts :
          ~FinitePositive(fromAmount) =>
            \A id \in IdChoices, type \in TradeTypes, toCurrency \in FewCodes :
              ~executeTrade(id, type, fromCurrency, toCurrency, fromAmount)]_vars

RECURSIVE SumInBase(_, _, _)
SumInBase(table, w, codes) ==
  IF codes = {} THEN Zero
  ELSE LET code == CHOOSE c \in codes : TRUE
       IN  NumAdd(convertCurrency(table, w[code], code, BaseCode),
                  SumInBase(table, w, codes \ {code}))

\* the value of a wallet in the base currency under a rate table
WalletValue(table, w) == SumInBase(table, w, DOMAIN w)

\* C4: the wallet is never worth more than the seed wallet, rates fixed
C4_NoValueCreated ==
  ~NumLt(WalletValue(currencies, FirstRender.wallet), WalletValue(currencies, wallet))

(***************************************************************************)
(* C5.  A successful executeTrade(type, from, to, fromAmount) with         *)
(* from # to lowers the balance of from by exactly fromAmount, raises the  *)
(* balance of to by convertCurrency(fromAmount, from, to), less the fee of *)
(* 0.2% of fromAmount when the type is exchange and in full when it is buy *)
(* or sell, and leaves every other balance as it was.                      *)
(***************************************************************************)
C5_TradeMovesBalances ==
  [][successes' # successes =>
       \A fromCurrency \in TradeCodes, fromAmount \in ValidAmounts :
         \A toCurrency \in TradeCodes \ {fromCurrency} :
           \A id \in IdChoices, type \in TradeTypes :
             executeTrade(id, type, fromCurrency, toCurrency, fromAmount) =>
               /\ BalanceOf(wallet', fromCurrency)
                    = NumSub(BalanceOf(wallet, fromCurrency), fromAmount)
               /\ BalanceOf(wallet', toCurrency)
                    = NumSub(NumAdd(BalanceOf(wallet, toCurrency),
                                    convertCurrency(view.currencies, fromAmount,
                                                    fromCurrency, toCurrency)),
                             IF type = "exchange"
                               THEN NumMul(fromAmount, Rat(2, 1000))
                               ELSE Zero)
               /\ \A code \in (DOMAIN wallet \cup DOMAIN wallet')
                                \ {fromCurrency, toCurrency} :
                    BalanceOf(wallet', code) = BalanceOf(wallet, code)]_vars

\* an exchange between two currencies other than the base has gone through,
\* out of a balance bought earlier, and a buy before it
C5_Witness ==
  /\ result = "true"
  /\ Len(transactions) = 2
  /\ transactions[1].type = "exchange"
  /\ transactions[1].fromCurrency = "USD"
  /\ transactions[1].toCurrency = "EUR"
  /\ transactions[2].type = "buy"
  /\ "EUR" \in DOMAIN wallet
  /\ NumLt(Zero, wallet["EUR"])

(***************************************************************************)
(* C6.  Every successful executeTrade applies both legs to the wallet: the *)
(* wallet after the call is the wallet before it with fromAmount debited   *)
(* from fromCode and then the credit added to toCode, for every pair of    *)
(* codes the engine accepts, fromCode = toCode included.  For equal codes  *)
(* the code applies the credit only: the statement is violated.            *)
(***************************************************************************)
\* the debit
Debited(prev, fromCurrency, fromAmount) ==
  [c \in DOMAIN prev \cup {fromCurrency} |->
     IF c = fromCurrency THEN NumSub(BalanceOf(prev, c), fromAmount) ELSE prev[c]]

\* the credit
Credited(prev, toCurrency, credit) ==
  [c \in DOMAIN prev \cup {toCurrency} |->
     IF c = toCurrency THEN NumAdd(BalanceOf(prev, c), credit) ELSE prev[c]]

\* C6: a successful trade leaves the wallet debited and then credited
C6_BothLegsApplied ==
  [][successes' # successes =>
       \A fromCurrency \in TradeCodes, fromAmount \in ValidAmounts :
         \A id \in IdChoices, type \in TradeTypes, toCurrency \in TradeCodes :
           executeTrade(id, type, fromCurrency, toCurrency, fromAmount) =>
             wallet' = Credited(Debited(wallet, fromCurrency, fromAmount),
                                toCurrency,
                                NumSub(convertCurrency(view.currencies, fromAmount,
                                                       fromCurrency, toCurrency),
                                       IF type = "exchange"
                                         THEN NumMul(fromAmount, Rat(2, 1000))
                                         ELSE Zero))]_vars

(***************************************************************************)
(* C7.  The transaction log holds exactly one entry for each executeTrade  *)
(* call that returned true and none for a call that returned false: in     *)
(* every reachable state its length is the number of successful trades.    *)
(***************************************************************************)
C7_LogCountsSuccesses == Len(transactions) = successes

\* two trades have gone through and a later call has failed
C7_Witness ==
  /\ successes = 2
  /\ result = "false"
  /\ error = "Insufficient balance"
  /\ Len(transactions) = 2

(***************************************************************************)
(* C8.  The transaction log is append-only and newest first: a step either *)
(* leaves the log as it is, or is a successful trade that puts one entry   *)
(* at index 0 and keeps every earlier entry, unaltered and in the same     *)
(* order, behind it.  No operation removes or alters an entry.             *)
(***************************************************************************)
C8_LogAppendOnlyNewestFirst ==
  [][IF successes' # successes
       THEN /\ transactions' # << >>
            /\ Tail(transactions') = transactions
            /\ result' = "true"
       ELSE transactions' = transactions]_vars

\* two different trades are in the log, and a refresh has replaced the table
\* since
C8_Witness ==
  /\ Len(transactions) = 2
  /\ transactions[1] # transactions[2]
  /\ transactions[1].toCurrency = "EUR"
  /\ transactions[2].toCurrency = "USD"
  /\ currencies # sampleCurrencies

(***************************************************************************)
(* C9.  The Transaction recorded for a successful trade carries the type,  *)
(* fromCurrency, toCurrency and fromAmount of the call, toAmount =         *)
(* convertCurrency(fromAmount, from, to), rate = convertCurrency(1, from,  *)
(* to) and fee = fromAmount x 0.002 for every type, the conversions being  *)
(* made with the rate table the call reads.                                *)
(***************************************************************************)
C9_TransactionFields ==
  [][successes' # successes =>
       \A fromCurrency \in TradeCodes, fromAmount \in EngineAmounts :
         \A id \in IdChoices, type \in TradeTypes, toCurrency \in TradeCodes :
           executeTrade(id, type, fromCurrency, toCurrency, fromAmount) =>
             /\ transactions' # << >>
             /\ Head(transactions').type = type
             /\ Head(transactions').fromCurrency = fromCurrency
             /\ Head(transactions').toCurrency = toCurrency
             /\ Head(transactions').fromAmount = fromAmount
             /\ Head(transactions').toAmount
                  = convertCurrency(view.currencies, fromAmount,
                                    fromCurrency, toCurrency)
             /\ Head(transactions').rate
                  = convertCurrency(view.currencies, Num(1),
                                    fromCurrency, toCurrency)
             /\ Head(transactions').fee = NumMul(fromAmount, Rat(2, 1000))]_vars

\* a buy made after a refresh is in the log with the refreshed rate and a fee
C9_Witness ==
  /\ transactions # << >>
  /\ Head(transactions).type = "buy"
  /\ Head(transactions).fromCurrency = "INR"
  /\ Head(transactions).toCurrency = "USD"
  /\ Head(transactions).fee = Num(1)
  /\ Head(transactions).rate # RateOf(sampleCurrencies, "USD")
  /\ Head(transactions).rate = RateOf(view.currencies, "USD")

(***************************************************************************)
(* C10.  In every reachable state the base currency INR has rate 1 and     *)
(* change24h 0, in the rate table and in the table the operations read:    *)
(* no sequence of refreshes, manual or timer-driven, overlapping or not,   *)
(* and trades changes them.                                                *)
(***************************************************************************)
BaseFixedIn(table) ==
  /\ \E i \in 1..Len(table) : table[i].code = BaseCode
  /\ \A i \in 1..Len(table) :
       table[i].code = BaseCode =>
         /\ table[i].rate = Num(1)
         /\ table[i].change24h = 0

\* C10: INR has rate 1 and change24h 0 in every table of every reachable state
C10_BaseRateFixed ==
  /\ BaseFixedIn(currencies)
  /\ BaseFixedIn(view.currencies)
  /\ \A i \in 1..Len(timeouts) : BaseFixedIn(timeouts[i].currencies)

\* the refresh made on mount and a later one have both completed and moved
\* the other rates, and a trade has gone through
C10_Witness ==
  /\ calls = 1
  /\ timeouts = << >>
  /\ loading = FALSE
  /\ successes = 1
  /\ RateOf(currencies, "USD") # RateOf(sampleCurrencies, "USD")
  /\ view.currencies = currencies

(***************************************************************************)
(* C11.  Each completed refresh moves the rate of every non-base currency  *)
(* by a factor within +/-0.5% of the rate that was in the table            *)
(* immediately before the refresh replaced it (to the six decimals the     *)
(* rate is rounded to) and change24h by at most 0.1 from its previous      *)
(* value, for timer-driven refreshes, manual ones and any interleaving.    *)
(* A callback perturbs the table its closure captured, not the table it    *)
(* replaces: the statement is violated.                                    *)
(***************************************************************************)
\* |new rate - old rate| <= 0.005 * old rate + 0.0000005, in millionths, and
\* |new change24h - old change24h| <= 0.1, in hundredths
WithinBand(old, new) ==
  /\ 200 * Abs(MicroOf(new.rate) - MicroOf(old.rate)) <= MicroOf(old.rate) + 100
  /\ Abs(new.change24h - old.change24h) <= 10

C11_RefreshWithinBand ==
  [][Len(timeouts') < Len(timeouts) =>
       /\ Len(currencies') = Len(currencies)
       /\ \A i \in 1..Len(currencies) :
            currencies[i].code # BaseCode =>
              WithinBand(currencies[i], currencies'[i])]_vars

(***************************************************************************)
(* C12.  Calling refreshRates sets loading to true and error to null on    *)
(* entry, and every started refresh eventually completes: its callback     *)
(* swaps in the table it computed and sets loading to false, so loading    *)
(* does not stay true for ever while the provider is mounted.              *)
(***************************************************************************)
C12_RefreshStartsAndCompletes ==
  /\ [][Len(timeouts') > Len(timeouts) =>
          /\ loading' = TRUE
          /\ error' = "null"]_vars
  /\ [][(mounted /\ Len(timeouts') < Len(timeouts)) =>
          /\ loading' = FALSE
          /\ \E draws \in RandomDraws :
               currencies' = updatedCurrencies(Head(timeouts).currencies, draws)]_vars
  /\ (timeouts # << >>) ~> (timeouts = << >>)
  /\ (mounted /\ loading) ~> (~loading \/ ~mounted)

\* the refresh of the mount and two later ones have completed on the mounted
\* provider
C12_Witness ==
  /\ mounted
  /\ calls = 2
  /\ timeouts = << >>
  /\ loading = FALSE
  /\ error = "null"
  /\ currencies # sampleCurrencies

(***************************************************************************)
(* C14.  The engine starts one refresh when it is created and one more on  *)
(* each tick of the interval timer; once it is torn down the timer is      *)
(* cancelled: no further refresh starts, and the teardown is final.        *)
(***************************************************************************)
C14_RefreshOnMountAndTicksUntilTeardown ==
  /\ Len(timeouts) = 1
  /\ timeouts[1].origin = "mount"
  /\ [][Len(timeouts') > Len(timeouts) =>
          /\ mounted
          /\ timeouts' = Append(timeouts, timeouts'[Len(timeouts')])
          /\ timeouts'[Len(timeouts')].origin \in {"interval", "manual"}]_vars
  /\ [][~mounted => /\ ~mounted'
                    /\ timeouts' \in {timeouts, Tail(timeouts)}]_vars

\* the provider was torn down while the refresh of a tick was pending and
\* further calls were within the bound
C14_Witness ==
  /\ ~mounted
  /\ calls < MaxCalls
  /\ Len(timeouts) = 1
  /\ timeouts[1].origin = "interval"

(***************************************************************************)
(* C15.  A refresh changes nothing but the rate and change24h of the       *)
(* non-base currencies: the codes of the table, their order and the other  *)
(* fields of every entry stay as they were, the base entry stays as it     *)
(* was, and the wallet, the transaction log and the favorites are          *)
(* unchanged, both when the refresh is called and when it completes.       *)
(***************************************************************************)
SameButRates(old, new) ==
  /\ Len(new) = Len(old)
  /\ \A i \in 1..Len(old) :
       /\ new[i].code = old[i].code
       /\ new[i].name = old[i].name
       /\ new[i].color = old[i].color
       /\ old[i].code = BaseCode => new[i] = old[i]

C15_RefreshFrame ==
  [][timeouts' # timeouts =>
       /\ SameButRates(currencies, currencies')
       /\ wallet' = wallet
       /\ transactions' = transactions
       /\ favorites' = favorites]_vars

\* a refresh has completed and moved the rates after a trade and a change of
\* the favorites
C15_Witness ==
  /\ timeouts = << >>
  /\ loading = FALSE
  /\ RateOf(currencies, "EUR") # RateOf(sampleCurrencies, "EUR")
  /\ Len(transactions) = 1
  /\ Len(favorites) = 4

(***************************************************************************)
(* C16.  The wallet and the transaction log change only in an executeTrade *)
(* call that returns true, and no executeTrade call, successful or not,    *)
(* changes the rate table, the favorites or the loading flag.              *)
(***************************************************************************)
C16_TradeFrame ==
  /\ [][(wallet' # wallet \/ transactions' # transactions) =>
          /\ result' = "true"
          /\ successes' = successes + 1]_vars
  /\ [][\/ /\ currencies' = currencies
           /\ favorites' = favorites
           /\ loading' = loading
        \/ \A fromCurrency \in TradeCodes, fromAmount \in EngineAmounts :
             IF Admitted(fromCurrency, fromAmount)
               THEN \A id \in IdChoices, type \in TradeTypes,
                       toCurrency \in TradeCodes :
                      ~executeTrade(id, type, fromCurrency, toCurrency, fromAmount)
               ELSE ~TradeRejected(fromCurrency, fromAmount)]_vars

\* a trade has gone through and a later call has failed while a refresh was
\* pending and the favorites had been changed
C16_Witness ==
  /\ result = "false"
  /\ successes = 1
  /\ loading = TRUE
  /\ timeouts # << >>
  /\ favorites # FirstRender.favorites

(***************************************************************************)
(* C17: for registered codes, convert(amount, from, to) is amount x        *)
(* rate(to) when from is the base, amount / rate(from) when to is the      *)
(* base, (amount / rate(from)) x rate(to) otherwise, the first rule        *)
(* winning when both codes are the base; the call reads the rate table of  *)
(* the render it belongs to and changes no state of the engine.            *)
(***************************************************************************)
Registered(table, code) == \E i \in 1..Len(table) : table[i].code = code

\* the quote of a registered code against the base
Quote(table, code) ==
  DblOfNum(table[CHOOSE i \in 1..Len(table) : table[i].code = code].rate)

ByRule(c) ==
  IF c.from = BaseCode THEN c.value = DblMul(c.amount, Quote(c.table, c.to))
  ELSE IF c.to = BaseCode THEN c.value = DblDiv(c.amount, Quote(c.table, c.from))
  ELSE c.value = DblMul(DblDiv(c.amount, Quote(c.table, c.from)),
                        Quote(c.table, c.to))

C17_ConvertByRule ==
  [][\/ converted' = converted
     \/ /\ converted'[Len(converted')].table = view.currencies
        /\ Registered(view.currencies, converted'[Len(converted')].from)
             /\ Registered(view.currencies, converted'[Len(converted')].to)
           => ByRule(converted'[Len(converted')])
        /\ UNCHANGED << currencies, wallet, transactions, favorites, loading,
                        error, view, timeouts, result, successes >>]_vars

\* a conversion between two registered codes other than the base, under a
\* refreshed table, whose result is converted back
C17_Witness ==
  /\ Len(converted) = 2
  /\ converted[1].from = "USD"
  /\ converted[1].to = "EUR"
  /\ converted[1].amount = DblOfInt(7)
  /\ converted[1].table # sampleCurrencies
  /\ converted[1].value.k = "fin"
  /\ converted[1].value # converted[1].amount
  /\ converted[2].to = "USD"

(***************************************************************************)
(* C18: for every registered currency x and every amount a >= 0,           *)
(* convert(a, x, x) equals a, under any rate table reachable by refreshes. *)
(***************************************************************************)
NonNegative(x) == x.k = "fin" /\ x.s = 1

C18_SameCurrencyIdentity ==
  \A i \in 1..Len(converted) :
    /\ converted[i].from = converted[i].to
    /\ Registered(converted[i].table, converted[i].from)
    /\ NonNegative(converted[i].amount)
    => converted[i].value = converted[i].amount

(***************************************************************************)
(* C19: for registered currencies x and y and a finite amount a,           *)
(* converting a from x to y and the result back from y to x under the same *)
(* rate table returns a up to the tolerance of the arithmetic: four units  *)
(* in the last place of a, one for each rounding of the two calls.         *)
(***************************************************************************)
\* |a - b| for two significands, when it is below 2^28, else 2^28
BigGap(a, b) ==
  LET d == IF BigLt(a, b) THEN BigSub(b, a) ELSE BigSub(a, b)
  IN  IF d[3] = 0 /\ d[4] = 0 THEN d[1] + LimbBase * d[2] ELSE LimbBase * LimbBase

\* the distance of two finite non-zero doubles of the same sign, in halves of
\* the unit in the last place of a
HalfUlps(x, a) ==
  LET top == BigShiftLeft(BigOfInt(1), MantissaBits)
      low == BigShiftLeft(BigOfInt(1), MantissaBits - 1)
  IN  IF x.e = a.e THEN 2 * BigGap(x.m, a.m)
      ELSE IF x.e = a.e + 1 THEN 2 * BigGap(top, a.m) + 4 * BigGap(x.m, low)
      ELSE IF x.e = a.e - 1 THEN 2 * BigGap(a.m, low) + BigGap(top, x.m)
      ELSE 4 * LimbBase * LimbBase

WithinUlps(x, a, n) ==
  /\ x.k = "fin"
  /\ a.k = "fin"
  /\ IF DblIsZero(x) \/ DblIsZero(a) THEN x = a
     ELSE x.s = a.s /\ HalfUlps(x, a) <= 2 * n

RoundTrip ==
  /\ Len(converted) = 2
  /\ converted[2].table = converted[1].table
  /\ Registered(converted[1].table, converted[1].from)
  /\ Registered(converted[1].table, converted[1].to)
  /\ converted[1].amount.k = "fin"

C19_RoundTripWithinTolerance ==
  RoundTrip => WithinUlps(converted[2].value, converted[1].amount, 4)

\* a round trip between two currencies other than the base, under a refreshed
\* table, that does not return the amount exactly
C19_Witness ==
  /\ RoundTrip
  /\ converted[1].from # BaseCode
  /\ converted[1].to # BaseCode
  /\ converted[1].to # converted[1].from
  /\ converted[1].table # sampleCurrencies
  /\ converted[2].value # converted[1].amount

(***************************************************************************)
(* C20: convert called with an unregistered code, as source or as target,  *)
(* yields amount x 0, that is 0: never an infinite or an undefined value.  *)
(***************************************************************************)
C20_UnregisteredYieldsZero ==
  \A i \in 1..Len(converted) :
    ~Registered(converted[i].table, converted[i].from)
      \/ ~Registered(converted[i].table, converted[i].to)
    => converted[i].value = DblZero

(***************************************************************************)
(* C21: favorites are idempotent: addToFavorites(c) followed by            *)
(* addToFavorites(c) leaves the same set of favorites as the first call    *)
(* alone, removeFromFavorites(c) of a code that is not in the set changes  *)
(* nothing, and removeFromFavorites(c) twice leaves what once leaves.      *)
(***************************************************************************)
Members(list) == {list[i] : i \in 1..Len(list)}

C21_FavoritesIdempotent ==
  [][\A c \in FavoriteCodes :
       /\ lastFavorite = [op |-> "add", code |-> c] /\ addToFavorites(c)
          => Members(favorites') = Members(favorites)
       /\ c \notin Members(favorites) /\ removeFromFavorites(c)
          => favorites' = favorites
       /\ lastFavorite = [op |-> "remove", code |-> c] /\ removeFromFavorites(c)
          => favorites' = favorites]_vars

(***************************************************************************)
(* C22: getFavorites returns exactly the registered currencies whose code  *)
(* is in the favorites, each once, in the order of the rate table whatever *)
(* the order the codes were added in; addToFavorites accepts an            *)
(* unregistered code, and that code never appears in a getFavorites        *)
(* result.                                                                 *)
(***************************************************************************)
\* the positions of the table at which the entries of list stand, if list is
\* made of entries of the table
PositionsIn(table, list) ==
  [i \in 1..Len(list) |-> CHOOSE j \in 1..Len(table) : table[j] = list[i]]

\* what getFavorites returns, against the table and the favorites it reads
ExactlyTheFavorites(list) ==
  /\ \A i \in 1..Len(list) :
       \E j \in 1..Len(view.currencies) : view.currencies[j] = list[i]
  /\ \A i, k \in 1..Len(list) :
       i < k => PositionsIn(view.currencies, list)[i]
                  < PositionsIn(view.currencies, list)[k]
  /\ {list[i].code : i \in 1..Len(list)}
       = {view.currencies[j].code : j \in 1..Len(view.currencies)}
           \cap Members(view.favorites)

C22_GetFavoritesInTableOrder ==
  /\ []ExactlyTheFavorites(getFavorites)
  /\ [][\A c \in FavoriteCodes :
          addToFavorites(c) /\ c \notin Members(view.favorites)
          => c \in Members(favorites')]_vars

\* an unregistered code and the base have been added after the first
\* favorites, and the render has bound them
C22_Witness ==
  /\ view.favorites = << "USD", "EUR", "GBP", "XXX", "INR" >>
  /\ Len(getFavorites) = 4
  /\ getFavorites[1].code = "INR"
  /\ ~Registered(view.currencies, "XXX")

(***************************************************************************)
(* C23: a failing executeTrade reports through its result and the error    *)
(* slot only: a call that does not apply the trade returns false and       *)
(* leaves a message in error, a call that applies it returns true, and     *)
(* every call returns one of the two; none ends in an exception.           *)
(***************************************************************************)
\* with trades and renders only, every step that is not a render is a call
C23_FailureReported ==
  [][view' = view =>
       /\ result' \in {"true", "false"}
       /\ transactions' = transactions
          => result' = "false" /\ error' # "null" /\ wallet' = wallet
       /\ transactions' # transactions => result' = "true"]_vars

\* a call has failed after one that succeeded
C23_Witness ==
  /\ result = "false"
  /\ error = "Insufficient balance"
  /\ successes = 1
  /\ Len(transactions) = 1

(***************************************************************************)
(* C24: adding or removing a favorite changes the favorites only: wallet,  *)
(* log, rate table, loading and error stay as they are; and no trade and   *)
(* no refresh changes the favorites.                                       *)
(***************************************************************************)
\* in the whole engine a call that is counted and schedules no refresh is a
\* favorites call
C24_FavoritesFrame ==
  /\ [][calls' # calls /\ timeouts' = timeouts =>
          /\ wallet' = wallet
          /\ transactions' = transactions
          /\ currencies' = currencies
          /\ loading' = loading
          /\ error' = error]_vars
  /\ [][favorites' # favorites =>
          /\ calls' # calls
          /\ timeouts' = timeouts
          /\ successes' = successes]_vars

\* a favorite has been added and a trade has gone through
C24_Witness ==
  /\ favorites = << "USD", "EUR", "GBP", "INR" >>
  /\ successes = 1
  /\ calls = 1

(***************************************************************************)
(* C25: the Transactions of the log have pairwise distinct ids, after any  *)
(* number of successful trades.                                            *)
(***************************************************************************)
C25_IdsDistinct ==
  \A i, j \in 1..Len(transactions) :
    i # j => transactions[i].id # transactions[j].id

(***************************************************************************)
(* C26: the balance an executeTrade call checks fromAmount against is the  *)
(* balance it then debits: of two calls on the same source currency made   *)
(* back to back, before a render has bound the new wallet, the second is   *)
(* admitted only if the balance the first left still covers its            *)
(* fromAmount, so the source balance does not go below 0.                  *)
(***************************************************************************)
C26_CheckedBalanceIsDebited ==
  [][successes' = successes + 1 =>
       /\ BalanceOf(view.wallet, transactions'[1].fromCurrency)
            = BalanceOf(wallet, transactions'[1].fromCurrency)
       /\ NumGe(BalanceOf(wallet, transactions'[1].fromCurrency),
                transactions'[1].fromAmount)
       /\ NumGe(BalanceOf(wallet', transactions'[1].fromCurrency), Zero)]_vars

(***************************************************************************)
(* C27: a successful executeTrade never lowers the balance of the target   *)
(* currency: what it credits, toAmount, less the fee of 0.2% of the source *)
(* amount for an exchange, is >= 0 for every kind and every pair of codes  *)
(* the engine accepts, registered or not.                                  *)
(***************************************************************************)
\* what the Transaction at the head of the log credited to its target
CreditOf(tx) ==
  IF tx.type = "exchange" THEN NumSub(tx.toAmount, tx.fee) ELSE tx.toAmount

C27_TargetNeverLowered ==
  [][successes' = successes + 1 =>
       /\ NumGe(CreditOf(transactions'[1]), Zero)
       /\ NumGe(BalanceOf(wallet', transactions'[1].toCurrency),
                BalanceOf(wallet, transactions'[1].toCurrency))]_vars

(***************************************************************************)
(* C28: loading is true in every state in which a refresh has started and  *)
(* not yet completed, also when a manual refresh overlaps a timer-driven   *)
(* one; loading becomes false only when no refresh is in flight.           *)
(***************************************************************************)
C28_LoadingWhileRefreshInFlight ==
  /\ [](timeouts # << >> => loading)
  /\ [][loading /\ ~loading' => timeouts' = << >>]_vars

(***************************************************************************)
(* C29: the fee the Transaction screen shows before a trade, 0.2% of the   *)
(* amount for an exchange and 0.5% for buy and sell, is the fee recorded   *)
(* on the Transaction that executeTrade creates for it, for every kind.    *)
(***************************************************************************)
C29_ShownFeeIsRecorded ==
  \A i \in 1..Len(transactions) :
    transactions[i].fee = ScreenFee(transactions[i].type, transactions[i].fromAmount)

(***************************************************************************)
(* C30: executeTrade with fromAmount equal to the positive balance of      *)
(* fromCode succeeds and leaves that balance exactly 0; from then on every *)
(* executeTrade from that currency fails until a trade credits it again.   *)
(***************************************************************************)
C30_MaxEmptiesBalance ==
  /\ [][\A fromCurrency \in TradeCodes :
          /\ FinitePositive(BalanceOf(wallet, fromCurrency))
          /\ view.wallet = wallet
          => ~TradeRejected(fromCurrency, BalanceOf(wallet, fromCurrency))]_vars
  /\ [][successes' = successes + 1 =>
          /\ BalanceOf(wallet, transactions'[1].fromCurrency) # Zero
          /\ transactions'[1].fromAmount
               = BalanceOf(wallet, transactions'[1].fromCurrency)
             => BalanceOf(wallet', transactions'[1].fromCurrency) = Zero]_vars

====
